---- MODULE Spec2Model ----
(***************************************************************************)
(* Model of the worldwright map subsystem: Direction, the exit types       *)
(* (RegularExit, NamedExit, Door), the indefinite-article helper and Map,  *)
(* a petgraph Graph<Room, Exit> of rooms joined by directed exits.         *)
(*                                                                         *)
(* Strings are sequences of one-character strings so that the first        *)
(* character of a name and the composition of a description are visible.   *)
(* Node and edge indices are 0-based as in petgraph; nodes[i + 1] is the   *)
(* node of index i.                                                        *)
(***************************************************************************)
EXTENDS Integers, Sequences, FiniteSets, TLC

VARIABLES nodes, edges, issued, calls, exitObj, last

vars == <<nodes, edges, issued, calls, exitObj, last>>

(* ------------------------------ bounds --------------------------------- *)

\* The largest graph built: rooms plus exits.
MaxSize == 4

\* Room descriptions the callers pass.
Descriptions == {"foyer", "hall"}

\* Directions the map-building calls are exercised with.
MapDirections == {"North", "East"}

\* Exit names the exit types are exercised with.
Names ==
  { <<>>,
    <<"a", "r", "c", "h">>,
    <<"A", "r", "c", "h">>,
    <<"o", "a", "k">>,
    <<"U", "r", "n">>,
    <<"g", "a", "t", "e">>,
    <<"E", "l", "m">>,
    <<"y", "e", "w">> }

(* ----------------------------- Direction ------------------------------- *)

Direction == {"North", "East", "South", "West"}

opposite_same_axis(d) ==
  CASE d = "North" -> "South"
    [] d = "East"  -> "East"
    [] d = "South" -> "North"
    [] d = "West"  -> "West"

opposite(d) ==
  CASE d = "North" -> "South"
    [] d = "East"  -> "West"
    [] d = "South" -> "North"
    [] d = "West"  -> "East"

\* impl Display for Direction
fmt(d) ==
  CASE d = "North" -> <<"n", "o", "r", "t", "h">>
    [] d = "East"  -> <<"e", "a", "s", "t">>
    [] d = "South" -> <<"s", "o", "u", "t", "h">>
    [] d = "West"  -> <<"w", "e", "s", "t">>

(* ------------------------- petgraph Graph<Room, Exit> ------------------ *)

\* EdgeIndex::end(), the list terminator: the largest index (u32::MAX in
\* petgraph, here the largest integer TLC holds), never the index of an edge.
End == 2147483647

node_count == Len(nodes)
edge_count == Len(edges)

\* Graph::add_node: push a node with two empty adjacency lists.
add_node(ns, weight) == Append(ns, [weight |-> weight, next |-> <<End, End>>])

\* Graph::add_edge panics, before any mutation, when an index is out of bounds.
add_edge_panics(ns, a, b) == (IF a >= b THEN a ELSE b) >= Len(ns)

\* Graph::add_edge, node side: the new edge becomes the head of a's outgoing
\* list and of b's incoming list.
add_edge_nodes(ns, es, a, b) ==
  LET edge_idx == Len(es)
  IN  [i \in 1..Len(ns) |->
        [ns[i] EXCEPT !.next =
          << IF i = a + 1 THEN edge_idx ELSE @[1],
             IF i = b + 1 THEN edge_idx ELSE @[2] >>]]

\* Graph::add_edge, edge side: the new edge links to the previous heads.
add_edge_edges(ns, es, a, b, weight) ==
  Append(es, [weight |-> weight,
              next   |-> <<ns[a + 1].next[1], ns[b + 1].next[2]>>,
              node   |-> <<a, b>>])

\* Edges iterator of a directed graph: follow next[k] from the head until
\* edges.get(i) is None.
RECURSIVE walk(_, _, _)
walk(es, e, k) ==
  IF e >= Len(es) THEN <<>>
  ELSE <<e>> \o walk(es, es[e + 1].next[k], k)

\* Graph::edges_directed: k = 1 is Outgoing, k = 2 is Incoming; a node that
\* does not exist has two empty lists.
edges_directed(ns, es, a, k) ==
  IF a >= Len(ns) THEN <<>> ELSE walk(es, ns[a + 1].next[k], k)

(* --------------------------------- Map --------------------------------- *)

tag_entries(es, idxs, way) ==
  [i \in 1..Len(idxs) |->
     [edge |-> idxs[i], exit |-> es[idxs[i] + 1].weight, way |-> way]]

get_exits_outgoing(ns, es, room_id) ==
  tag_entries(es, edges_directed(ns, es, room_id, 1), "From")

get_exits_skip_loops(ns, es, room_id) ==
  tag_entries(es, edges_directed(ns, es, room_id, 1), "From")
    \o tag_entries(es,
         SelectSeq(edges_directed(ns, es, room_id, 2),
                   LAMBDA e : es[e + 1].node[1] # room_id),
         "To")

get_exits_to_first(ns, es, room_id) ==
  tag_entries(es, edges_directed(ns, es, room_id, 2), "To")
    \o tag_entries(es, edges_directed(ns, es, room_id, 1), "From")

\* Map::get_exits: the outgoing edges tagged From, then the incoming tagged To.
get_exits(ns, es, room_id) ==
  tag_entries(es, edges_directed(ns, es, room_id, 1), "From")
    \o tag_entries(es, edges_directed(ns, es, room_id, 2), "To")

get_relative_direction_stored(exit, exit_way) == exit.direction

\* Map::get_relative_direction
get_relative_direction(exit, exit_way) ==
  IF exit_way = "From" THEN exit.direction ELSE opposite(exit.direction)

(* ------------------------------ exit types ----------------------------- *)

\* const VOWELS
VOWELS == {"a", "e", "i", "o", "u"}

\* starts_with_vowel: whether the first char, if any, is one of VOWELS.
starts_with_vowel(s) ==
  IF Len(s) > 0 THEN s[1] \in VOWELS ELSE FALSE

RegularExit == [kind |-> "RegularExit"]

\* NamedExit::new
NamedExit_new(name) == [kind |-> "NamedExit", name |-> name]

\* Door::new; the name is an Option: <<>> is None, <<n>> is Some(n).
Door_new(locked) == [kind |-> "Door", locked |-> locked, name |-> <<>>]

\* Door::new_with_name
Door_new_with_name(locked, name) ==
  [kind |-> "Door", locked |-> locked, name |-> <<name>>]

lock_toggles(door) == [door EXCEPT !.locked = ~@]

\* Door::lock
lock(door) == [door EXCEPT !.locked = TRUE]

\* Door::unlock
unlock(door) == [door EXCEPT !.locked = FALSE]

can_go_through_always(exit) == TRUE

\* ExitType::can_go_through of RegularExit, NamedExit and Door
can_go_through(exit) ==
  IF exit.kind = "Door" THEN ~exit.locked ELSE TRUE

\* ExitType::description of RegularExit, NamedExit and Door
description(exit, direction) ==
  CASE exit.kind = "RegularExit" ->
         <<"a", "n", " ", "e", "x", "i", "t", " ">> \o fmt(direction)
    [] exit.kind = "NamedExit" ->
         <<"a">> \o (IF starts_with_vowel(exit.name) THEN <<"n">> ELSE <<>>)
           \o <<" ">> \o exit.name \o <<" ">> \o fmt(direction)
    [] exit.kind = "Door" ->
         IF Len(exit.name) > 0
         THEN <<"a">>
                \o (IF starts_with_vowel(exit.name[1]) /\ ~exit.locked
                    THEN <<"n">> ELSE <<>>)
                \o (IF exit.locked
                    THEN <<" ", "l", "o", "c", "k", "e", "d", " ">> ELSE <<" ">>)
                \o exit.name[1] \o <<" ">> \o fmt(direction)
         ELSE <<"a">>
                \o (IF exit.locked
                    THEN <<" ", "l", "o", "c", "k", "e", "d", " ">> ELSE <<" ">>)
                \o <<"d", "o", "o", "r", " ">> \o fmt(direction)

\* The exits a caller can construct.
AllExits ==
  {RegularExit}
    \cup {NamedExit_new(n) : n \in Names}
    \cup {Door_new(l) : l \in BOOLEAN}
    \cup {Door_new_with_name(l, n) : l \in BOOLEAN, n \in Names}

\* The exits the map-building calls are exercised with.
MapExits == {Door_new(TRUE)}

(* ------------------------------- state --------------------------------- *)

\* nodes, edges : the graph's node and edge vectors (Map.graph).
\* issued       : the handles this Map has returned, with the description of
\*                the room each was returned for, in order of issue.
\* calls        : the edges created, as the caller asked for them.
\* exitObj      : an exit value held by a caller.
\* last         : the last call, its arguments, its outcome (ok = FALSE is a
\*                panic) and the counts before it.

IssuedSet == {issued[i].h : i \in 1..Len(issued)}

\* A NodeIndex the caller passes: one this Map issued, or one that comes from
\* elsewhere (another Map, or NodeIndex::new) and carries any index: here the
\* first index, or one past every index of the largest graph.
Handles ==
  {[ix |-> i, foreign |-> FALSE] : i \in IssuedSet}
    \cup {[ix |-> i, foreign |-> TRUE] : i \in {0, MaxSize}}

Pre == [n0 |-> node_count, e0 |-> edge_count, i0 |-> Len(issued)]

\* Map::new
Init ==
  /\ nodes = <<>>
  /\ edges = <<>>
  /\ issued = <<>>
  /\ calls = <<>>
  /\ exitObj = RegularExit
  /\ last = [op |-> "new"]

\* Room::new
Room_new(text) == [description |-> text]

add_node_index_first(ns) == 0

\* Graph::add_node's result: the index of the pushed node.
add_node_index(ns) == Len(ns)

\* Map::new_room
new_room(room_description) ==
  /\ node_count + edge_count < MaxSize
  /\ nodes' = add_node(nodes, Room_new(room_description))
  /\ issued' = Append(issued, [h |-> add_node_index(nodes),
                               description |-> room_description])
  /\ last' = [op |-> "new_room", ok |-> TRUE, ret |-> add_node_index(nodes),
              pre |-> Pre]
  /\ UNCHANGED <<edges, calls, exitObj>>

\* Map::add_room
add_room(room) ==
  /\ node_count + edge_count < MaxSize
  /\ nodes' = add_node(nodes, room)
  /\ issued' = Append(issued, [h |-> add_node_index(nodes),
                               description |-> room.description])
  /\ last' = [op |-> "add_room", ok |-> TRUE, ret |-> add_node_index(nodes),
              pre |-> Pre]
  /\ UNCHANGED <<edges, calls, exitObj>>

\* Map::connect_rooms
connect_rooms(from, to, direction, exit) ==
  /\ node_count + edge_count < MaxSize
  /\ IF add_edge_panics(nodes, from.ix, to.ix)
     THEN /\ last' = [op |-> "connect_rooms", ok |-> FALSE, from |-> from,
                      to |-> to, pre |-> Pre]
          /\ UNCHANGED <<nodes, edges, calls>>
     ELSE /\ nodes' = add_edge_nodes(nodes, edges, from.ix, to.ix)
          /\ edges' = add_edge_edges(nodes, edges, from.ix, to.ix,
                                     [direction |-> direction, exit_type |-> exit])
          /\ calls' = Append(calls, [edge |-> Len(edges), from |-> from.ix,
                                     to |-> to.ix, direction |-> direction])
          /\ last' = [op |-> "connect_rooms", ok |-> TRUE, from |-> from,
                      to |-> to, pre |-> Pre]
  /\ UNCHANGED <<issued, exitObj>>

\* Map::new_room_in_direction: new_room, then add_edge, which may panic with
\* the room already added.
new_room_in_direction(from, direction, exit, room_description) ==
  /\ node_count + edge_count + 1 < MaxSize
  /\ LET to  == add_node_index(nodes)
         ns1 == add_node(nodes, Room_new(room_description))
     IN  IF add_edge_panics(ns1, from.ix, to)
         THEN /\ nodes' = ns1
              /\ last' = [op |-> "new_room_in_direction", ok |-> FALSE,
                          from |-> from, direction |-> direction, pre |-> Pre]
              /\ UNCHANGED <<edges, issued, calls>>
         ELSE /\ nodes' = add_edge_nodes(ns1, edges, from.ix, to)
              /\ edges' = add_edge_edges(ns1, edges, from.ix, to,
                            [direction |-> direction, exit_type |-> exit])
              /\ issued' = Append(issued, [h |-> to,
                                           description |-> room_description])
              /\ calls' = Append(calls, [edge |-> Len(edges), from |-> from.ix,
                                         to |-> to, direction |-> direction])
              /\ last' = [op |-> "new_room_in_direction", ok |-> TRUE,
                          ret |-> to, from |-> from, direction |-> direction,
                          pre |-> Pre]
  /\ UNCHANGED exitObj

\* A call of Map::get_exits.
GetExits(room) ==
  /\ last' = [op |-> "get_exits", ok |-> TRUE, room |-> room,
              ret |-> get_exits(nodes, edges, room.ix)]
  /\ UNCHANGED <<nodes, edges, issued, calls, exitObj>>

\* A call of Map::get_relative_direction on entry i of get_exits(room).
GetRelativeDirection(room, i) ==
  LET entry == get_exits(nodes, edges, room.ix)[i]
  IN  /\ last' = [op |-> "get_relative_direction", ok |-> TRUE,
                  entry |-> entry,
                  ret |-> get_relative_direction(entry.exit, entry.way)]
      /\ UNCHANGED <<nodes, edges, issued, calls, exitObj>>

Next ==
  \/ \E d \in Descriptions : new_room(d)
  \/ \E d \in Descriptions : add_room(Room_new(d))
  \/ \E from \in Handles, to \in Handles, d \in MapDirections, e \in MapExits :
       connect_rooms(from, to, d, e)
  \/ \E from \in Handles, d \in MapDirections, e \in MapExits,
        s \in Descriptions :
       new_room_in_direction(from, d, e, s)
  \/ \E room \in Handles : GetExits(room)
  \/ \E room \in Handles :
       \E i \in 1..Len(get_exits(nodes, edges, room.ix)) :
         GetRelativeDirection(room, i)

Spec == Init /\ [][Next]_vars

(* ----------------------- exits held by a caller ------------------------ *)

InitExit ==
  /\ nodes = <<>>
  /\ edges = <<>>
  /\ issued = <<>>
  /\ calls = <<>>
  /\ exitObj \in AllExits
  /\ last = [op |-> "new"]

Lock ==
  /\ exitObj.kind = "Door"
  /\ exitObj' = lock(exitObj)
  /\ last' = [op |-> "lock", before |-> exitObj]
  /\ UNCHANGED <<nodes, edges, issued, calls>>

Unlock ==
  /\ exitObj.kind = "Door"
  /\ exitObj' = unlock(exitObj)
  /\ last' = [op |-> "unlock", before |-> exitObj]
  /\ UNCHANGED <<nodes, edges, issued, calls>>

CanGoThrough ==
  /\ last' = [op |-> "can_go_through", before |-> exitObj,
              ret |-> can_go_through(exitObj)]
  /\ UNCHANGED <<nodes, edges, issued, calls, exitObj>>

Description(direction) ==
  /\ last' = [op |-> "description", before |-> exitObj,
              direction |-> direction,
              ret |-> description(exitObj, direction)]
  /\ UNCHANGED <<nodes, edges, issued, calls, exitObj>>

Opposite(direction) ==
  /\ last' = [op |-> "opposite", direction |-> direction,
              ret |-> opposite(direction)]
  /\ UNCHANGED <<nodes, edges, issued, calls, exitObj>>

NextExit ==
  \/ Lock
  \/ Unlock
  \/ CanGoThrough
  \/ \E d \in Direction : Description(d)
  \/ \E d \in Direction : Opposite(d)

SpecExit == InitExit /\ [][NextExit]_vars

(* ------------------------------- claims -------------------------------- *)

\* The rooms of the map, by index.
Rooms == 0..(node_count - 1)

\* The handles issued before the last call.
IssuedBefore == {issued[i].h : i \in 1..last.pre.i0}

\* A handle this Map issued, as the caller of the last call knew it.
Valid(h) == ~h.foreign /\ h.ix \in IssuedBefore

\* The position of edge e in the order of insertion.
InsertionRank(e) == CHOOSE c \in 1..Len(calls) : calls[c].edge = e

\* C1: every edge created from u to v with direction d is listed by
\* get_exits(u) tagged From and resolves there to d, and is listed by
\* get_exits(v) tagged To and resolves there to opposite(d); a call of
\* get_relative_direction on a listed entry returns just that.
C1_RelativeDirection ==
  /\ \A c \in 1..Len(calls) :
       LET atSource == get_exits(nodes, edges, calls[c].from)
           atTarget == get_exits(nodes, edges, calls[c].to)
       IN  /\ \E i \in 1..Len(atSource) :
                 atSource[i].edge = calls[c].edge /\ atSource[i].way = "From"
           /\ \A i \in 1..Len(atSource) :
                 atSource[i].edge = calls[c].edge /\ atSource[i].way = "From"
                   => get_relative_direction(atSource[i].exit, atSource[i].way)
                        = calls[c].direction
           /\ \E i \in 1..Len(atTarget) :
                 atTarget[i].edge = calls[c].edge /\ atTarget[i].way = "To"
           /\ \A i \in 1..Len(atTarget) :
                 atTarget[i].edge = calls[c].edge /\ atTarget[i].way = "To"
                   => get_relative_direction(atTarget[i].exit, atTarget[i].way)
                        = opposite(calls[c].direction)
  /\ last.op = "get_relative_direction" =>
       LET d == calls[InsertionRank(last.entry.edge)].direction
       IN  last.ret = IF last.entry.way = "From" THEN d ELSE opposite(d)

\* An edge created East between two different rooms has been resolved from its
\* target, to West.
C1_Witness ==
  /\ last.op = "get_relative_direction"
  /\ last.entry.way = "To"
  /\ last.ret = "West"
  /\ calls[InsertionRank(last.entry.edge)].direction = "East"
  /\ calls[InsertionRank(last.entry.edge)].from
       # calls[InsertionRank(last.entry.edge)].to

Entries(x, e, way) ==
  Cardinality({i \in 1..Len(x) : x[i].edge = e /\ x[i].way = way})

\* C3: for every room r, get_exits(r) holds one From entry for each edge
\* whose source is r, one To entry for each edge whose target is r, and no
\* other entry; for a room with no incident edge it is empty.
C3_IncidentEdges ==
  \A r \in Rooms :
    LET x == get_exits(nodes, edges, r)
    IN  /\ \A c \in 1..Len(calls) :
             /\ Entries(x, calls[c].edge, "From")
                  = IF calls[c].from = r THEN 1 ELSE 0
             /\ Entries(x, calls[c].edge, "To")
                  = IF calls[c].to = r THEN 1 ELSE 0
        /\ \A i \in 1..Len(x) :
             /\ x[i].way \in {"From", "To"}
             /\ \E c \in 1..Len(calls) : calls[c].edge = x[i].edge
        /\ (\A c \in 1..Len(calls) : calls[c].from # r /\ calls[c].to # r)
             => x = <<>>
        /\ (last.op = "get_exits" /\ ~last.room.foreign /\ last.room.ix = r)
             => last.ret = x

\* get_exits has been called on a room with an outgoing and an incoming edge
\* while another room of the map has no edge at all.
C3_Witness ==
  /\ last.op = "get_exits"
  /\ ~last.room.foreign
  /\ \E i \in 1..Len(last.ret), j \in 1..Len(last.ret) :
       /\ last.ret[i].way = "From"
       /\ last.ret[j].way = "To"
       /\ last.ret[i].edge # last.ret[j].edge
  /\ \E r \in Rooms : get_exits(nodes, edges, r) = <<>>

\* C4 as stated: connect_rooms with a from or to that this Map did not issue
\* fails and leaves the node count and the edge count as they were.
C4_ForeignHandleFails ==
  (last.op = "connect_rooms" /\ (~Valid(last.from) \/ ~Valid(last.to)))
    => /\ ~last.ok
       /\ node_count = last.pre.n0
       /\ edge_count = last.pre.e0

\* C5 as stated: get_exits with a handle that is not part of this Map fails,
\* which the caller can tell from the empty result of an isolated room.
C5_InvalidHandleFails ==
  (last.op = "get_exits" /\ (last.room.foreign \/ last.room.ix \notin IssuedSet))
    => ~last.ok

\* C6 as stated: new_room_in_direction with a valid from adds one room and one
\* edge from `from` to the new room carrying d and returns the new room's
\* handle; with a from that is not a handle of this Map it fails and the map
\* is as it was.
C6_Atomic ==
  last.op = "new_room_in_direction" =>
    IF Valid(last.from)
    THEN /\ last.ok
         /\ node_count = last.pre.n0 + 1
         /\ edge_count = last.pre.e0 + 1
         /\ last.ret = node_count - 1
         /\ edges[edge_count].node = <<last.from.ix, last.ret>>
         /\ edges[edge_count].weight.direction = last.direction
    ELSE /\ ~last.ok
         /\ node_count = last.pre.n0
         /\ edge_count = last.pre.e0

\* C7: new_room, add_room and new_room_in_direction with a valid from succeed,
\* add exactly one node and return a handle no earlier call returned; every
\* handle ever returned denotes a room of the map with the description it was
\* returned for.
C7_FreshStableHandles ==
  /\ (\/ last.op \in {"new_room", "add_room"}
      \/ (last.op = "new_room_in_direction" /\ Valid(last.from)))
       => /\ last.ok
          /\ node_count = last.pre.n0 + 1
          /\ last.ret \notin IssuedBefore
          /\ Len(issued) = last.pre.i0 + 1
          /\ issued[Len(issued)].h = last.ret
  /\ \A i \in 1..Len(issued) :
       /\ issued[i].h \in Rooms
       /\ nodes[issued[i].h + 1].weight.description = issued[i].description
  /\ \A i \in 1..Len(issued), j \in 1..Len(issued) :
       i # j => issued[i].h # issued[j].h

\* new_room_in_direction has returned the third handle of a map whose rooms
\* do not all have the same description.
C7_Witness ==
  /\ last.op = "new_room_in_direction"
  /\ last.ok
  /\ Valid(last.from)
  /\ Len(issued) = 3
  /\ \E i \in 1..Len(issued) : issued[i].description # issued[1].description

LowerFirst(s) ==
  CASE s[1] = "A" -> "a"
    [] s[1] = "E" -> "e"
    [] s[1] = "I" -> "i"
    [] s[1] = "O" -> "o"
    [] s[1] = "U" -> "u"
    [] OTHER -> s[1]

\* The article of the claim: "an" exactly when the name starts with a vowel
\* of either case, "a" otherwise and for the empty name.
Article(s) ==
  IF Len(s) > 0 /\ LowerFirst(s) \in {"a", "e", "i", "o", "u"}
  THEN <<"a", "n">> ELSE <<"a">>

\* C9 as stated: the description of a NamedExit and of a named unlocked Door
\* is the article of its name (case-insensitive), the name and the direction;
\* that of a named locked Door is "a locked", the name and the direction.
C9_ArticleAnyCase ==
  last.op = "description" =>
    /\ last.before.kind = "NamedExit"
         => last.ret = Article(last.before.name) \o <<" ">> \o last.before.name
                         \o <<" ">> \o fmt(last.direction)
    /\ (last.before.kind = "Door" /\ Len(last.before.name) > 0)
         => last.ret =
              (IF last.before.locked
               THEN <<"a", " ", "l", "o", "c", "k", "e", "d">>
               ELSE Article(last.before.name[1]))
                \o <<" ">> \o last.before.name[1] \o <<" ">> \o fmt(last.direction)

\* C10: opposite maps North to South, South to North, East to West and West
\* to East, so its result is never its argument and applying it twice gives
\* the argument back.
C10_OppositeInvolution ==
  /\ \A d \in Direction :
       /\ opposite(d) \in Direction
       /\ opposite(opposite(d)) = d
       /\ opposite(d) # d
  /\ last.op = "opposite" =>
       /\ last.ret = (CASE last.direction = "North" -> "South"
                        [] last.direction = "South" -> "North"
                        [] last.direction = "East"  -> "West"
                        [] last.direction = "West"  -> "East")
       /\ opposite(last.ret) = last.direction

\* opposite has been applied to West and returned East.
C10_Witness ==
  /\ last.op = "opposite"
  /\ last.direction = "West"
  /\ last.ret = "East"

\* The edges created with source r, and those created with target r.
OutEdges(r) == {c \in 1..Len(calls) : calls[c].from = r}
InEdges(r) == {c \in 1..Len(calls) : calls[c].to = r}

\* C11: get_exits(r) has as many entries as r has outgoing plus incoming
\* edges; a self-loop on r is listed exactly twice, once tagged From and once
\* tagged To, and its two entries resolve to d and to opposite(d).
C11_SelfLoopTwice ==
  \A r \in Rooms :
    LET x == get_exits(nodes, edges, r)
    IN  /\ Len(x) = Cardinality(OutEdges(r)) + Cardinality(InEdges(r))
        /\ \A c \in OutEdges(r) \cap InEdges(r) :
             LET mine == {i \in 1..Len(x) : x[i].edge = calls[c].edge}
             IN  /\ Cardinality(mine) = 2
                 /\ {x[i].way : i \in mine} = {"From", "To"}
                 /\ {get_relative_direction(x[i].exit, x[i].way) : i \in mine}
                      = {calls[c].direction, opposite(calls[c].direction)}

\* get_exits has been called on the second room of the map, whose only edge
\* is a self-loop made by connect_rooms, and returned it twice.
C11_Witness ==
  /\ last.op = "get_exits"
  /\ ~last.room.foreign
  /\ last.room.ix = 1
  /\ Len(last.ret) = 2
  /\ last.ret[1].edge = last.ret[2].edge
  /\ last.ret[1].way = "From"
  /\ last.ret[2].way = "To"
  /\ edges[last.ret[1].edge + 1].node = <<1, 1>>

====
